---- MODULE Spec2Model ----
(***************************************************************************)
(* Model of .github/get_predefined_de/main.py: the aggregation pipeline    *)
(* that collects the list.json documents of the configured sources into    *)
(* catalog/list.json.                                                      *)
(*                                                                         *)
(* Text is a sequence of tokens (a token stands for a run of characters    *)
(* that the program never splits: "github.com", "/", "blob", ...), so that *)
(* Python's substring test, split and replace are computed, not assumed.   *)
(* A Python value that the code tells apart by its type carries a tag:     *)
(* Dict(f) and List(s).                                                    *)
(***************************************************************************)
EXTENDS Integers, Sequences, FiniteSets, TLC

VARIABLES
    pc,            \* where the process is: a step of main(), or how it exited
    run,           \* which run of the tool this is (1, 2, ...)
    config,        \* predefined_url.json on disk
    controller,    \* controller.json on disk
    output_file,   \* catalog/list.json on disk
    upstream,      \* what each URL fetched so far answered (it answers the same again)
    url_details,   \* get_design_examples: url_details
    idx,           \* get_design_examples: position of the for loop over url_details
    releases,      \* process_github_url: releases
    rel,           \* process_github_url: position of the for loop over releases
    list_json,     \* process_github_url: list_json
    all_list_json, \* get_design_examples: all_list_json, while it is the item list
    catalog,       \* get_design_examples: all_list_json, once metadata_formatize made it
    merged,        \* replace_if_diff: all_list_json, after add_controller
    existing,      \* replace_if_diff: what it found at options.output
    log,           \* the WARNING and ERROR records emitted in this run
    fetched,       \* the source URLs requested in this run, in order
    writes,        \* per run, how often write_to_file wrote the output file
    fn_in,         \* the arguments of a function applied on its own
    fn_out         \* what that function returned

vars == <<pc, run, config, controller, output_file, upstream, url_details, idx,
          releases, rel, list_json, all_list_json, catalog, merged, existing,
          log,
          fetched, writes, fn_in, fn_out>>

(***************************************************************************)
(* Bounds of the model.                                                    *)
(***************************************************************************)
MaxUrls == 2
MaxReleases == 2
MaxItems == 3
MaxRuns == 2
MaxChunks == 2

(***************************************************************************)
(* Python str operations, on token sequences.                              *)
(***************************************************************************)
StartsAt(s, p, i) ==
    /\ i >= 1
    /\ i + Len(p) - 1 <= Len(s)
    /\ \A k \in 1..Len(p) : s[i + k - 1] = p[k]

\* p in s
Contains(s, p) == \E i \in 1..(Len(s) + 1) : StartsAt(s, p, i)

\* s.find(p), counted from 1; 0 when p is not in s
Find(s, p) ==
    IF Contains(s, p)
    THEN CHOOSE i \in 1..(Len(s) + 1) :
            /\ StartsAt(s, p, i)
            /\ \A j \in 1..(i - 1) : ~StartsAt(s, p, j)
    ELSE 0

\* s.split(p, 1)[-1]
AfterFirst(s, p) ==
    IF Find(s, p) = 0 THEN s ELSE SubSeq(s, Find(s, p) + Len(p), Len(s))

\* s.replace(p, "")
RECURSIVE RemoveAll(_, _)
RemoveAll(s, p) ==
    IF Find(s, p) = 0 THEN s
    ELSE SubSeq(s, 1, Find(s, p) - 1)
            \o RemoveAll(SubSeq(s, Find(s, p) + Len(p), Len(s)), p)

\* s.lstrip(c)
RECURSIVE LStrip(_, _)
LStrip(s, c) == IF s # <<>> /\ Head(s) = c THEN LStrip(Tail(s), c) ELSE s

\* s.split(c): the list of the pieces of s between the tokens c
RECURSIVE Split(_, _)
Split(s, c) ==
    IF Find(s, <<c>>) = 0 THEN <<s>>
    ELSE <<SubSeq(s, 1, Find(s, <<c>>) - 1)>>
            \o Split(SubSeq(s, Find(s, <<c>>) + 1, Len(s)), c)

(***************************************************************************)
(* Python values.                                                          *)
(***************************************************************************)
Dict(f) == [py |-> "dict", dict |-> f]
List(s) == [py |-> "list", list |-> s]
IsDict(v) == v.py = "dict"
\* k in v, for a dict v
Has(v, k) == k \in DOMAIN v.dict
\* v[k]
Get(v, k) == v.dict[k]

\* {**a, **b} of two records (items)
Update(a, b) ==
    [k \in DOMAIN a \cup DOMAIN b |-> IF k \in DOMAIN b THEN b[k] ELSE a[k]]

(***************************************************************************)
(* is_github, convert_to_raw_github_url, use_raw_image_url                 *)
(***************************************************************************)
is_github(url) == Contains(url, <<"github.com">>)

RawPrefix == <<"https://", "raw.githubusercontent.com", "/">>

convert_to_raw_github_url(github_url) ==
    LET parts1 == AfterFirst(github_url, <<"github.com", "/">>)
        parts2 == AfterFirst(parts1, <<"@">>)
        parts3 == RemoveAll(parts2, <<"blob", "/">>)
    IN  RawPrefix \o parts3

\* replace_with_raw, on the src of one tag that img_pattern matched
replace_with_raw(img_url, repo_url) ==
    IF is_github(img_url) /\ Contains(img_url, repo_url)
    THEN convert_to_raw_github_url(img_url)
    ELSE img_url

\* A rich description is a sequence of chunks: [kind |-> "img", body |-> src]
\* is an <img ... src="..." ...> tag that img_pattern matches, with its
\* group(1); [kind |-> "text", body |-> tokens] is the text between the tags.
\* re.sub hands every match to replace_with_raw and keeps the rest.
use_raw_image_url(rich_description, repo_url) ==
    [i \in 1..Len(rich_description) |->
        IF rich_description[i].kind = "img"
        THEN [kind |-> "img",
              body |-> replace_with_raw(rich_description[i].body, repo_url)]
        ELSE rich_description[i]]

(***************************************************************************)
(* get_design_examples_list                                                *)
(***************************************************************************)
InvalidFormat == [level |-> "WARNING", msg |-> "The data format is invalid"]

\* The value returned and the records logged.
get_design_examples_list(data) ==
    IF Has(data, "data")
    THEN IF Has(Get(data, "data"), "designs")
         THEN [data |-> Get(Get(data, "data"), "designs"), logged |-> <<>>]
         ELSE [data |-> data, logged |-> <<>>]
    ELSE IF Has(data, "designs")
    THEN [data |-> Get(data, "designs"), logged |-> <<>>]
    ELSE [data |-> List(<<>>), logged |-> <<InvalidFormat>>]

(***************************************************************************)
(* extract_url_details, get_unique_urls                                    *)
(***************************************************************************)
\* urlparse(url).path: what follows the scheme and the network location
UrlPath(url) ==
    LET rest == Tail(url)
    IN  IF Find(rest, <<"/">>) = 0 THEN <<>>
        ELSE SubSeq(rest, Find(rest, <<"/">>), Len(rest))

extract_url_detail(url) ==
    LET path_parts == Split(LStrip(UrlPath(url), "/"), "/")
    IN  [url        |-> url,
         headers    |-> {},
         repo_owner |-> IF Len(path_parts) >= 2 THEN path_parts[1] ELSE <<>>,
         repo_name  |-> IF Len(path_parts) >= 2 THEN path_parts[2] ELSE <<>>]

extract_url_details(urls) == [i \in 1..Len(urls) |-> extract_url_detail(urls[i])]

RECURSIVE unique_loop(_, _, _)
unique_loop(url_detail_list, temp_list, unique_list) ==
    IF url_detail_list = <<>> THEN unique_list
    ELSE LET item == Head(url_detail_list)
         IN  IF \A i \in 1..Len(temp_list) : temp_list[i] # item.url
             THEN unique_loop(Tail(url_detail_list),
                              Append(temp_list, item.url),
                              Append(unique_list, item))
             ELSE unique_loop(Tail(url_detail_list), temp_list, unique_list)

\* keeps the last of the descriptors that share a URL
RECURSIVE mut_get_unique_urls(_)
mut_get_unique_urls(url_detail_list) ==
    IF url_detail_list = <<>> THEN <<>>
    ELSE LET item == Head(url_detail_list)
             rest == Tail(url_detail_list)
         IN  IF \E i \in 1..Len(rest) : rest[i].url = item.url
             THEN mut_get_unique_urls(rest)
             ELSE <<item>> \o mut_get_unique_urls(rest)

get_unique_urls(url_detail_list) == unique_loop(url_detail_list, <<>>, <<>>)

(***************************************************************************)
(* The world outside the process: the URLs and what they answer.           *)
(***************************************************************************)
LIST_JSON == <<"list.json">>
PKG_ZIP == <<"pkg.zip">>
DOC_ZIP == <<"doc.zip">>
GONE_ZIP == <<"gone.zip">>

LegacyUrl ==
    <<"https://", "bsas.intel.com", "/", "api", "/", "design_examples", "/",
      "latest", "/">>
GithubUrl == <<"https://", "github.com", "/", "intel", "/", "example">>
MirrorUrl == <<"https://", "mirror.example.org", "/", "designs">>

SameRepoImage ==
    <<"https://", "github.com", "/", "intel", "/", "example", "/", "blob", "/",
      "main", "/", "x.png">>
ForeignImage == <<"https://", "cdn.example.org", "/", "y.png">>

\* The p-th item that release r of source src publishes (r = 0: no release).
\* Its id is an origin-defined field that tells where the item came from.
UpstreamItem(src, r, p) ==
    [id               |-> [src |-> src, rel |-> r, pos |-> p],
     downloadUrl      |-> IF p % 3 = 1 THEN PKG_ZIP
                          ELSE IF p % 3 = 2 THEN DOC_ZIP ELSE GONE_ZIP,
     rich_description |->
        IF p % 2 = 1
        THEN <<[kind |-> "text", body |-> <<"board">>],
               [kind |-> "img", body |-> SameRepoImage]>>
        ELSE <<[kind |-> "img", body |-> ForeignImage]>>]

UpstreamItems(src, r, n) == [p \in 1..n |-> UpstreamItem(src, r, p)]

\* The documents a list.json URL may hold.
Documents(src, r) ==
    {Dict([designs |-> List(UpstreamItems(src, r, MaxItems))]),
     Dict([foo |-> 1]),
     Dict([data |-> Dict([foo |-> 1])])}

\* What a GET of a JSON document may answer.
DocumentAnswers(src, r) ==
    {[status |-> "neterr"], [status |-> "badjson"]}
    \cup {[status |-> "ok", json |-> d] : d \in Documents(src, r)}

ReleasesUrl(repo_owner, repo_name) ==
    <<"https://", "api.github.com", "/", "repos", "/">> \o repo_owner
        \o <<"/">> \o repo_name \o <<"/", "releases">>

AssetUrl(src, r, i) ==
    ReleasesUrl(extract_url_detail(src).repo_owner, extract_url_detail(src).repo_name)
        \o <<"/", "assets", "/", ToString(r), "-", ToString(i)>>

\* The asset names of a release, in the order the API lists them (<<>> would
\* be an asset the API lists without a name).
Layouts == {<<PKG_ZIP>>, <<PKG_ZIP, LIST_JSON, DOC_ZIP>>}

Release(src, r, layout) ==
    [tag_name |-> ToString(r),
     assets   |-> [i \in 1..Len(layout) |->
                     IF layout[i] = <<>>
                     THEN [url |-> AssetUrl(src, r, i)]
                     ELSE [name |-> layout[i], url |-> AssetUrl(src, r, i)]]]

ReleaseLists(src) ==
    UNION {{[r \in 1..n |-> Release(src, r, f[r])] : f \in [1..n -> Layouts]}
           : n \in 0..MaxReleases}

ReleasesAnswers(src) ==
    {[status |-> "neterr"]}
    \cup {[status |-> "ok", json |-> l] : l \in ReleaseLists(src)}

\* A URL answers a second request as it answered the first.
Answers(url, fresh) ==
    IF url \in DOMAIN upstream THEN {upstream[url]} ELSE fresh

Remember(url, answer) ==
    IF url \in DOMAIN upstream THEN upstream ELSE upstream @@ (url :> answer)

(***************************************************************************)
(* The files the process reads and writes.                                 *)
(* A JSON object, in memory (a Python dict) and in a file, is the sequence *)
(* of its <<key, value>> members in insertion order.                       *)
(***************************************************************************)
Keys(members) == {members[i][1] : i \in 1..Len(members)}

\* the value a dict holds for key k: the last member with that key
Lookup(members, k) ==
    members[CHOOSE i \in 1..Len(members) :
                /\ members[i][1] = k
                /\ \A j \in (i + 1)..Len(members) : members[j][1] # k][2]

\* dict == dict: the same keys with the same values, in any order
DictEq(a, b) ==
    /\ Keys(a) = Keys(b)
    /\ \A k \in Keys(a) : Lookup(a, k) = Lookup(b, k)

\* {**a, **b}
Merge(a, b) ==
    [i \in 1..Len(a) |->
        <<a[i][1], IF a[i][1] \in Keys(b) THEN Lookup(b, a[i][1]) ELSE a[i][2]>>]
    \o SelectSeq(b, LAMBDA m : m[1] \notin Keys(a))

\* json.load: the members are inserted in file order, a repeated key keeps
\* its first place and takes the later value
RECURSIVE json_load(_)
json_load(text) ==
    IF text = <<>> THEN <<>>
    ELSE LET before == json_load(SubSeq(text, 1, Len(text) - 1))
             m == text[Len(text)]
         IN  IF m[1] \in Keys(before)
             THEN [i \in 1..Len(before) |->
                     IF before[i][1] = m[1] THEN m ELSE before[i]]
             ELSE Append(before, m)

\* json.dump(content, file, indent=4, ensure_ascii=False)
json_dump(content) == [i \in 1..Len(content) |-> content[i]]

\* A file's content is fixed from the moment the process first reads the file;
\* until then the file is Unread, and any content is possible.
Unread == [state |-> "unread"]
OnDisk(file, contents) == IF file = Unread THEN contents ELSE {file}

Absent == [state |-> "absent"]
Malformed == [state |-> "malformed"]
JsonFile(text) == [state |-> "json", text |-> text]

ConfigEntries ==
    {[url |-> GithubUrl], [url |-> MirrorUrl], [url |-> LegacyUrl],
     [comment |-> "disabled"]}

ConfigFiles ==
    {Absent, Malformed}
    \cup {[state |-> "json", entries |-> e] :
            e \in UNION {[1..n -> ConfigEntries] : n \in 0..MaxUrls}}

ControllerFiles ==
    {Absent, Malformed,
     JsonFile(<< <<"num", 999>> >>),
     JsonFile(<< <<"regenerate", TRUE>> >>),
     JsonFile(<< <<"regenerate", TRUE>>, <<"designs", <<>> >> >>)}

OutputFiles ==
    {Absent, Malformed, JsonFile(<< <<"designs", <<>> >>, <<"num", 0>> >>)}

(***************************************************************************)
(* Logging. initialize_logging installs ExitOnExceptionHandler, whose emit *)
(* raises SystemExit(-1) after an ERROR or CRITICAL record was written.    *)
(* INFO records change nothing and are left out of log.                    *)
(***************************************************************************)
Error(m) == [level |-> "ERROR", msg |-> m]
Warning(m) == [level |-> "WARNING", msg |-> m]

mut_ExitOnExceptionHandler(record) == FALSE

ExitOnExceptionHandler(record) == record.level \in {"ERROR", "CRITICAL"}

\* The records of recs that are emitted when they are logged in this order:
\* all of them, or those up to the first one at which the handler exits.
RECURSIVE Emitted(_)
Emitted(recs) ==
    IF recs = <<>> THEN <<>>
    ELSE IF ExitOnExceptionHandler(Head(recs)) THEN <<Head(recs)>>
    ELSE <<Head(recs)>> \o Emitted(Tail(recs))

Exits(recs) == \E i \in 1..Len(recs) : ExitOnExceptionHandler(recs[i])

\* The exits: sys.exit(None), SystemExit(-1), an uncaught exception.
Exited == {"done", "exit_error", "crashed"}

(***************************************************************************)
(* get_predefined_url                                                      *)
(***************************************************************************)
get_legacy_predefined_url == <<LegacyUrl>>

\* the URLs appended to predefined_urls by the loop over the file's entries
RECURSIVE entry_urls(_)
entry_urls(data) ==
    IF data = <<>> THEN <<>>
    ELSE IF "url" \in DOMAIN Head(data)
         THEN <<Head(data).url>> \o entry_urls(Tail(data))
         ELSE entry_urls(Tail(data))

(***************************************************************************)
(* metadata_formatize, add_controller                                      *)
(***************************************************************************)
mut_metadata_formatize(metadata) ==
    << <<"num", Len(metadata) + 1>>, <<"designs", metadata>> >>

metadata_formatize(metadata) ==
    << <<"num", Len(metadata)>>, <<"designs", metadata>> >>

mut_add_controller(file, all_list) ==
    IF file.state = "json" THEN Merge(json_load(file.text), all_list) ELSE all_list

\* add_controller, for a controller file that json.load accepts or that is absent
add_controller(file, all_list) ==
    IF file.state = "json" THEN Merge(all_list, json_load(file.text)) ELSE all_list

(***************************************************************************)
(* The steps of one run: main -> get_design_examples.                      *)
(***************************************************************************)
sourceLocals == <<releases, rel, list_json>>
disk == <<config, controller, output_file>>
apart == <<fn_in, fn_out>>

FileNotFound == Error("File not found")
ConfigNotJson == Error("Failed to decode JSON from file")

\* [urls: predefined_urls, recs: the records logged]
get_predefined_url(file) ==
    IF file.state = "json"
    THEN [urls |-> get_legacy_predefined_url \o entry_urls(file.entries),
          recs |-> <<>>]
    ELSE [urls |-> get_legacy_predefined_url,
          recs |-> IF file.state = "absent" THEN <<FileNotFound>>
                   ELSE <<ConfigNotJson>>]

\* get_design_examples, to the head of its loop
GetPredefinedUrl ==
    /\ pc = "start"
    /\ LET read == get_predefined_url(config)
       IN  /\ log' = log \o Emitted(read.recs)
           /\ IF Exits(read.recs)
              THEN /\ pc' = "exit_error"
                   /\ UNCHANGED <<url_details, idx>>
              ELSE /\ pc' = "sources"
                   /\ url_details' =
                        get_unique_urls(extract_url_details(read.urls))
                   /\ idx' = 1
    /\ UNCHANGED <<run, disk, upstream, sourceLocals, all_list_json, catalog,
                   merged, existing, fetched, writes, apart>>

\* lines 356-359: what get_design_examples does with a source's list_json
Validated(items) ==
    [i \in 1..Len(items) |-> Update(items[i], [Q_VALIDATED |-> TRUE])]

mut_Extend(all_list, items) == Validated(items) \o all_list

Extend(all_list, items) == all_list \o Validated(items)

\* process_non_github_url: [list_json, recs, crashed]
non_github_result(answer) ==
    IF answer.status = "neterr"
    THEN [list_json |-> <<>>, recs |-> <<Error("Failed to fetch URL")>>,
          crashed |-> FALSE]
    ELSE IF answer.status = "badjson"
    THEN [list_json |-> <<>>,
          recs |-> <<Error("did not return a valid JSON response")>>,
          crashed |-> FALSE]
    ELSE LET got == get_design_examples_list(answer.json)
             list_json_by_url == got.data
         IN  IF IsDict(list_json_by_url)
             THEN \* a dict with a key is true; the comprehension then unpacks
                  \* its keys, which are str: TypeError
                  [list_json |-> <<>>, recs |-> got.logged, crashed |-> TRUE]
             ELSE IF list_json_by_url.list # <<>>
             THEN [list_json |->
                     [i \in 1..Len(list_json_by_url.list) |->
                        Update(list_json_by_url.list[i],
                               [Q_DOWNLOAD_URL |->
                                  list_json_by_url.list[i].downloadUrl])],
                   recs |-> got.logged, crashed |-> FALSE]
             ELSE [list_json |-> <<>>,
                   recs |-> got.logged
                      \o <<Error("Unable to find any design examples in URL")>>,
                   crashed |-> FALSE]

\* process_non_github_url and the rest of the loop body
ProcessNonGithubUrl ==
    /\ pc = "sources"
    /\ idx <= Len(url_details)
    /\ ~is_github(url_details[idx].url)
    /\ LET url == url_details[idx].url
       IN  \E answer \in Answers(url, DocumentAnswers(url, 0)) :
             LET res == non_github_result(answer)
             IN  /\ upstream' = Remember(url, answer)
                 /\ fetched' = Append(fetched, url)
                 /\ log' = log \o Emitted(res.recs)
                 /\ IF Exits(res.recs)
                    THEN /\ pc' = "exit_error"
                         /\ UNCHANGED <<idx, all_list_json>>
                    ELSE IF res.crashed
                    THEN /\ pc' = "crashed"
                         /\ UNCHANGED <<idx, all_list_json>>
                    ELSE /\ pc' = "sources"
                         /\ all_list_json' = Extend(all_list_json, res.list_json)
                         /\ idx' = idx + 1
    /\ UNCHANGED <<run, disk, url_details, sourceLocals, catalog, merged,
                   existing, writes, apart>>

\* f"{url_detail['repo_owner']}/{url_detail['repo_name']}"
RepoId(url_detail) == url_detail.repo_owner \o <<"/">> \o url_detail.repo_name

\* fetch_github_releases and the head of the loop of process_github_url
FetchGithubReleases ==
    /\ pc = "sources"
    /\ idx <= Len(url_details)
    /\ is_github(url_details[idx].url)
    /\ LET url_detail == url_details[idx]
           releases_url == ReleasesUrl(url_detail.repo_owner, url_detail.repo_name)
       IN  \E answer \in Answers(releases_url, ReleasesAnswers(url_detail.url)) :
             /\ upstream' = Remember(releases_url, answer)
             /\ fetched' = Append(fetched, url_detail.url)
             /\ IF answer.status = "ok"
                THEN /\ releases' = answer.json
                     /\ rel' = 1
                     /\ list_json' = <<>>
                     /\ pc' = "releases"
                     /\ log' = log
                ELSE \* the function returns None, and "for release in None"
                     \* raises TypeError unless the handler exited before
                     /\ log' = log \o <<Error("Failed to fetch releases for repository")>>
                     /\ pc' = IF Exits(<<Error("Failed to fetch releases for repository")>>)
                              THEN "exit_error" ELSE "crashed"
                     /\ UNCHANGED <<releases, rel, list_json>>
    /\ UNCHANGED <<run, disk, url_details, idx, all_list_json, catalog, merged,
                   existing, writes, apart>>

NoMaps == [name \in {} |-> <<>>]

\* "if x:" for a list or a dict
Truthy(v) == IF IsDict(v) THEN DOMAIN v.dict # {} ELSE v.list # <<>>

\* The loop over release["assets"] (lines 188-214). answer is what the URL of
\* the list.json asset answers; caught tells whether the JSON error that
\* response.json() raises is a requests.exceptions.RequestException (it is
\* from requests 2.27 on). The result: the locals after the loop, the
\* records logged, whether the list.json URL was requested, and how the
\* loop stopped ("no": it ran to its end).
RECURSIVE asset_loop(_, _, _, _)
asset_loop(assets, answer, caught, st) ==
    IF assets = <<>> THEN st
    ELSE LET asset == Head(assets)
         IN  IF "name" \in DOMAIN asset
             THEN LET maps == Update(st.design_package_maps, asset.name :> asset.url)
                      st1 == [st EXCEPT !.design_package_maps = maps]
                  IN  IF asset.name = LIST_JSON
                      THEN IF answer.status = "ok"
                           THEN LET got == get_design_examples_list(answer.json)
                                IN  asset_loop(Tail(assets), answer, caught,
                                        [st1 EXCEPT !.list_json_by_release = got.data,
                                                    !.recs = @ \o got.logged,
                                                    !.requested = TRUE])
                           ELSE IF answer.status = "badjson" /\ ~caught
                           THEN [st1 EXCEPT !.requested = TRUE, !.stop = "crash"]
                           ELSE LET rec == Error("Unable to fetch list.json from release")
                                    st2 == [st1 EXCEPT !.recs = Append(@, rec),
                                                       !.requested = TRUE]
                                IN  IF ExitOnExceptionHandler(rec)
                                    THEN [st2 EXCEPT !.stop = "exit"]
                                    ELSE asset_loop(Tail(assets), answer, caught, st2)
                      ELSE asset_loop(Tail(assets), answer, caught, st1)
             ELSE LET rec == Error("Missing 'name' field in asset")
                      st2 == [st EXCEPT !.recs = Append(@, rec)]
                  IN  IF ExitOnExceptionHandler(rec)
                      THEN [st2 EXCEPT !.stop = "exit"]
                      ELSE asset_loop(Tail(assets), answer, caught, st2)

LoopStart ==
    [design_package_maps |-> NoMaps, list_json_by_release |-> List(<<>>),
     recs |-> <<>>, requested |-> FALSE, stop |-> "no"]

MissingAsset(item, release) ==
    [level |-> "WARNING", msg |-> "Missing asset", asset |-> item.downloadUrl,
     release |-> release.tag_name]

mut_resolve(design_package_maps, item) ==
    IF item.downloadUrl \in DOMAIN design_package_maps
    THEN item.downloadUrl
    ELSE <<>>

\* lines 223-229: the value Q_DOWNLOAD_URL gets
resolve(design_package_maps, item) ==
    IF item.downloadUrl \in DOMAIN design_package_maps
    THEN design_package_maps[item.downloadUrl]
    ELSE <<>>

\* lines 222-234, for one item
enrich(item, design_package_maps, release, url_detail) ==
    Update(item,
           [Q_DOWNLOAD_URL   |-> resolve(design_package_maps, item),
            Q_GITHUB_RELEASE |-> release.tag_name,
            rich_description |->
                use_raw_image_url(item.rich_description, RepoId(url_detail))])

\* the warnings of lines 226-228, in the order of the items
RECURSIVE missing_warnings(_, _, _)
missing_warnings(items, design_package_maps, release) ==
    IF items = <<>> THEN <<>>
    ELSE (IF Head(items).downloadUrl \in DOMAIN design_package_maps
          THEN <<>>
          ELSE <<MissingAsset(Head(items), release)>>)
         \o missing_warnings(Tail(items), design_package_maps, release)

ListJsonAsset(release) ==
    {i \in 1..Len(release.assets) :
        /\ "name" \in DOMAIN release.assets[i]
        /\ release.assets[i].name = LIST_JSON}

\* One pass of the loop over releases (lines 183-240).
ProcessRelease ==
    /\ pc = "releases"
    /\ rel <= Len(releases)
    /\ LET release == releases[rel]
           url_detail == url_details[idx]
           at == ListJsonAsset(release)
           list_json_url == IF at = {} THEN <<>>
                            ELSE release.assets[CHOOSE i \in at : TRUE].url
       IN  \E answer \in IF at = {} THEN {[status |-> "none"]}
                         ELSE Answers(list_json_url,
                                      DocumentAnswers(url_detail.url, rel)) :
           \E caught \in IF answer.status = "badjson" THEN BOOLEAN ELSE {TRUE} :
             LET loop == asset_loop(release.assets, answer, caught, LoopStart)
                 found == loop.list_json_by_release
             IN  /\ upstream' = IF loop.requested
                                THEN Remember(list_json_url, answer)
                                ELSE upstream
                 /\ url_details' =
                      IF loop.requested
                      THEN [url_details EXCEPT ![idx].headers =
                              @ \cup {<<"Accept", "application/octet-stream">>}]
                      ELSE url_details
                 /\ IF loop.stop = "exit"
                    THEN /\ log' = log \o loop.recs
                         /\ pc' = "exit_error"
                         /\ UNCHANGED <<rel, list_json>>
                    ELSE IF loop.stop = "crash" \/ (Truthy(found) /\ IsDict(found))
                    THEN \* json.JSONDecodeError is not caught; or the items
                         \* are the keys of a dict, and item["downloadUrl"]
                         \* on a str raises TypeError
                         /\ log' = log \o loop.recs
                         /\ pc' = "crashed"
                         /\ UNCHANGED <<rel, list_json>>
                    ELSE IF Truthy(found)
                    THEN /\ log' = (log \o loop.recs)
                                     \o missing_warnings(found.list,
                                            loop.design_package_maps, release)
                         /\ list_json' =
                              list_json
                              \o [i \in 1..Len(found.list) |->
                                    enrich(found.list[i], loop.design_package_maps,
                                           release, url_detail)]
                         /\ rel' = rel + 1
                         /\ pc' = "releases"
                    ELSE /\ log' = (log \o loop.recs)
                                     \o <<Warning("Unable to read list.json in release")>>
                         /\ rel' = rel + 1
                         /\ pc' = "releases"
                         /\ UNCHANGED list_json
    /\ UNCHANGED <<run, disk, idx, releases, all_list_json, catalog, merged,
                   existing, fetched, writes, apart>>

NoListJson == Error("Unable to read any list.json in URL")

\* The end of process_github_url (lines 242-245) and the rest of the loop body.
FinishGithubUrl ==
    /\ pc = "releases"
    /\ rel > Len(releases)
    /\ LET recs == IF list_json = <<>> THEN <<NoListJson>> ELSE <<>>
       IN  /\ log' = log \o Emitted(recs)
           /\ IF Exits(recs)
              THEN /\ pc' = "exit_error"
                   /\ UNCHANGED <<idx, all_list_json>>
              ELSE /\ pc' = "sources"
                   /\ all_list_json' = Extend(all_list_json, list_json)
                   /\ idx' = idx + 1
    /\ UNCHANGED <<run, disk, upstream, url_details, sourceLocals, catalog,
                   merged, existing, fetched, writes, apart>>

(***************************************************************************)
(* replace_if_diff, after its call of add_controller (lines 72-96), and    *)
(* write_to_file. The file system takes every write: makedirs, open and    *)
(* json.dump succeed.                                                      *)
(***************************************************************************)
write_to_file(content) == JsonFile(json_dump(content))

VerifyFailed == Error("An error occurred while verifying the file")

mut_replace_if_diff(file, all_list) ==
    IF file.state = "absent"
    THEN [file |-> write_to_file(all_list), wrote |-> TRUE, recs |-> <<>>]
    ELSE IF file.state = "malformed"
    THEN [file |-> file, wrote |-> FALSE, recs |-> <<VerifyFailed>>]
    ELSE [file |-> write_to_file(all_list), wrote |-> TRUE, recs |-> <<>>]

\* [file: the output file afterwards, wrote: whether write_to_file wrote it,
\*  recs: the records logged]
replace_if_diff(file, all_list) ==
    IF file.state = "absent"
    THEN [file |-> write_to_file(all_list), wrote |-> TRUE, recs |-> <<>>]
    ELSE IF file.state = "malformed"
    THEN \* json.load raises, "except Exception" logs the error
         [file |-> file, wrote |-> FALSE, recs |-> <<VerifyFailed>>]
    ELSE IF DictEq(json_load(file.text), all_list)
    THEN [file |-> file, wrote |-> FALSE, recs |-> <<>>]
    ELSE [file |-> write_to_file(all_list), wrote |-> TRUE, recs |-> <<>>]

NothingFound == Error("No list.json files were found.")

\* get_design_examples after its loop (lines 361-368), then main to its exit.
Consolidate ==
    /\ pc = "sources"
    /\ idx > Len(url_details)
    /\ IF all_list_json # <<>>
       THEN \E c \in OnDisk(controller, ControllerFiles) :
            /\ catalog' = metadata_formatize(all_list_json)
            /\ controller' = c
            /\ IF c.state = "malformed"
               THEN \* json.load raises in add_controller, outside any try
                    /\ pc' = "crashed"
                    /\ UNCHANGED <<merged, existing, output_file, writes, log>>
               ELSE \E o \in OnDisk(output_file, OutputFiles) :
                    LET all_list == add_controller(c, catalog')
                        done == replace_if_diff(o, all_list)
                    IN  /\ merged' = all_list
                        /\ existing' = o
                        /\ output_file' = done.file
                        /\ writes' = IF done.wrote
                                     THEN [writes EXCEPT ![run] = @ + 1]
                                     ELSE writes
                        /\ log' = log \o Emitted(done.recs)
                        /\ pc' = IF Exits(done.recs) THEN "exit_error" ELSE "done"
       ELSE /\ log' = log \o <<NothingFound>>
            /\ pc' = IF Exits(<<NothingFound>>) THEN "exit_error" ELSE "done"
            /\ UNCHANGED <<catalog, merged, existing, controller, output_file,
                           writes>>
    /\ UNCHANGED <<run, config, upstream, url_details, idx,
                   sourceLocals, all_list_json, fetched, apart>>

NoAnswers == [url \in {} |-> [status |-> "none"]]

\* The tool is started again: a new process, the same disk, the same upstream.
NextRun ==
    /\ pc \in Exited
    /\ run < MaxRuns
    /\ run' = run + 1
    /\ pc' = "start"
    /\ url_details' = <<>>
    /\ idx' = 1
    /\ releases' = <<>>
    /\ rel' = 1
    /\ list_json' = <<>>
    /\ all_list_json' = <<>>
    /\ catalog' = <<>>
    /\ merged' = <<>>
    /\ existing' = Unread
    /\ log' = <<>>
    /\ fetched' = <<>>
    /\ UNCHANGED <<disk, upstream, writes, apart>>

Idle ==
    /\ run = 1
    /\ upstream = NoAnswers
    /\ url_details = <<>>
    /\ idx = 1
    /\ releases = <<>>
    /\ rel = 1
    /\ list_json = <<>>
    /\ all_list_json = <<>>
    /\ catalog = <<>>
    /\ merged = <<>>
    /\ existing = Unread
    /\ log = <<>>
    /\ fetched = <<>>
    /\ writes = [r \in 1..MaxRuns |-> 0]

Init ==
    /\ pc = "start"
    /\ config \in ConfigFiles
    /\ controller = Unread
    /\ output_file = Unread
    /\ Idle
    /\ fn_in = <<>>
    /\ fn_out = <<>>

Next ==
    \/ GetPredefinedUrl
    \/ ProcessNonGithubUrl
    \/ FetchGithubReleases
    \/ ProcessRelease
    \/ FinishGithubUrl
    \/ Consolidate
    \/ NextRun

Spec == Init /\ [][Next]_vars

(***************************************************************************)
(* get_design_examples_list applied on its own, to every shape of document *)
(***************************************************************************)
InnerLists == {List(UpstreamItems(LegacyUrl, 0, n)) : n \in 0..MaxItems}
OuterLists == {List(UpstreamItems(MirrorUrl, 0, n)) : n \in 0..MaxItems}

InnerDicts ==
    {Dict([k \in S |-> IF k = "designs" THEN l ELSE 1]) :
        S \in SUBSET {"designs", "foo"}, l \in InnerLists}

ListDocuments ==
    {Dict([k \in S |-> IF k = "data" THEN d ELSE IF k = "designs" THEN l ELSE 1]) :
        S \in SUBSET {"data", "designs", "foo"}, d \in InnerDicts, l \in OuterLists}

InitList ==
    /\ pc = "call_list"
    /\ config = Unread
    /\ controller = Unread
    /\ output_file = Unread
    /\ Idle
    /\ fn_in \in ListDocuments
    /\ fn_out = <<>>

ApplyList ==
    /\ pc = "call_list"
    /\ fn_out' = get_design_examples_list(fn_in)
    /\ log' = log \o fn_out'.logged
    /\ pc' = "return_list"
    /\ UNCHANGED <<run, disk, upstream, url_details, idx, sourceLocals,
                   all_list_json, catalog, merged, existing, fetched, writes,
                   fn_in>>

SpecList == InitList /\ [][ApplyList]_vars

(***************************************************************************)
(* use_raw_image_url applied on its own                                    *)
(***************************************************************************)
ImageUrls ==
    {SameRepoImage,
     ForeignImage,
     <<"https://", "github.com", "/", "other", "/", "repo", "/", "blob", "/",
       "main", "/", "x.png">>,
     <<"https://", "token", "@", "github.com", "/", "intel", "/", "example",
       "/", "blob", "/", "main", "/", "x.png">>,
     <<"https://", "evil.example", "/", "github.com", "/", "intel", "/",
       "example", "/", "x.png">>,
     <<"https://", "github.com", "/", "other", "/", "repo", "/", "blob", "/",
       "main", "/", "intel", "/", "example", "/", "x.png">>}

Chunks ==
    {[kind |-> "img", body |-> u] : u \in ImageUrls}
    \cup {[kind |-> "text", body |-> <<"board">>]}

Descriptions == UNION {[1..n -> Chunks] : n \in 0..MaxChunks}

RepoIds == {<<"intel", "/", "example">>, <<"other", "/", "repo">>}

InitImages ==
    /\ pc = "call_images"
    /\ config = Unread
    /\ controller = Unread
    /\ output_file = Unread
    /\ Idle
    /\ fn_in \in [text : Descriptions, repo : RepoIds]
    /\ fn_out = <<>>

ApplyImages ==
    /\ pc = "call_images"
    /\ fn_out' = use_raw_image_url(fn_in.text, fn_in.repo)
    /\ pc' = "return_images"
    /\ UNCHANGED <<run, disk, upstream, url_details, idx, sourceLocals,
                   all_list_json, catalog, merged, existing, log, fetched,
                   writes, fn_in>>

SpecImages == InitImages /\ [][ApplyImages]_vars

(***************************************************************************)
(* The claims.                                                             *)
(***************************************************************************)
Logged(record) == \E k \in 1..Len(log) : log[k] = record

ListJsonFailed == Error("Unable to fetch list.json from release")

\* C1: when fetching or parsing the list.json of one release fails, only that
\* release contributes nothing: the run still processes the remaining
\* releases of the source and every later source.
C1_ReleaseFailureIsolated ==
    (pc \in Exited /\ Logged(ListJsonFailed))
        => /\ idx > Len(url_details)
           /\ \A i \in 1..Len(url_details) :
                \E k \in 1..Len(fetched) : fetched[k] = url_details[i].url

NumIsLength(object) == Lookup(object, "num") = Len(Lookup(object, "designs"))

OverrideKeys ==
    IF controller.state = "json" THEN Keys(json_load(controller.text)) ELSE {}

\* C2: every catalog object of the run has num = length(designs): the one
\* metadata_formatize builds, the one add_controller returns and the one
\* written to the output file, whatever the controller override holds.
C2_NumIsLengthAlways ==
    /\ Len(catalog) > 0 => NumIsLength(catalog)
    /\ Len(merged) > 0 => NumIsLength(merged)
    /\ writes[run] > 0 => NumIsLength(json_load(output_file.text))

\* C2, amended: the object metadata_formatize builds always has
\* num = length(designs); the object add_controller returns and the object
\* written to the output file have it when the controller file is absent or
\* overrides neither num nor designs.
C2_NumIsLengthUnlessOverridden ==
    /\ Len(catalog) > 0 => NumIsLength(catalog)
    /\ (Len(merged) > 0 /\ OverrideKeys \cap {"num", "designs"} = {})
          => NumIsLength(merged)
    /\ (writes[run] > 0 /\ OverrideKeys \cap {"num", "designs"} = {})
          => NumIsLength(json_load(output_file.text))

C2_Witness ==
    /\ writes[run] > 0
    /\ OverrideKeys = {"regenerate"}
    /\ Lookup(json_load(output_file.text), "num") = 2 * MaxItems

\* C3: get_design_examples_list(v) is v.data.designs when v has data and
\* v.data has designs; otherwise v.designs when v has designs; otherwise the
\* empty list, with a warning.
C3_TolerantExtraction ==
    pc = "return_list" =>
        IF Has(fn_in, "data") /\ Has(Get(fn_in, "data"), "designs")
        THEN /\ fn_out.data = Get(Get(fn_in, "data"), "designs")
             /\ fn_out.logged = <<>>
        ELSE IF Has(fn_in, "designs")
        THEN /\ fn_out.data = Get(fn_in, "designs")
             /\ fn_out.logged = <<>>
        ELSE /\ fn_out.data = List(<<>>)
             /\ fn_out.logged = <<InvalidFormat>>

SourceIndex(url) ==
    CHOOSE i \in 1..Len(url_details) : url_details[i].url = url

Precedes(a, b) ==
    \/ SourceIndex(a.id.src) < SourceIndex(b.id.src)
    \/ /\ a.id.src = b.id.src
       /\ \/ a.id.rel < b.id.rel
          \/ a.id.rel = b.id.rel /\ a.id.pos < b.id.pos

InOrder(items) ==
    \A i, j \in 1..Len(items) : i < j => Precedes(items[i], items[j])

\* C4: in the designs of the catalog no item of a later source stands before
\* an item of an earlier source of the deduplicated source list; the items
\* of one GitHub source stand in the order of its releases, and those of one
\* release in the order of its item list.
C4_OrderPreserved ==
    /\ InOrder(list_json)
    /\ InOrder(all_list_json)
    /\ Len(catalog) > 0 => InOrder(Lookup(catalog, "designs"))

C4_Witness ==
    /\ Len(catalog) > 0
    /\ LET designs == Lookup(catalog, "designs")
       IN  /\ \E i, j \in 1..Len(designs) : designs[i].id.src # designs[j].id.src
           /\ \E i, j \in 1..Len(designs) :
                /\ designs[i].id.src = designs[j].id.src
                /\ designs[i].id.rel # designs[j].id.rel
           /\ \E i, j \in 1..Len(designs) :
                /\ designs[i].id.src = designs[j].id.src
                /\ designs[i].id.rel = designs[j].id.rel
                /\ designs[i].id.pos # designs[j].id.pos

Differs(file, object) ==
    \/ file.state = "absent"
    \/ file.state = "json" /\ ~DictEq(json_load(file.text), object)

\* C5: replace_if_diff writes the output file exactly when there is no prior
\* file or the prior file's parsed content differs from the merged object;
\* a second run on unchanged upstream data and controller file writes
\* nothing and leaves the output file as it is.
C5_WritesOnlyOnChange ==
    /\ [](/\ (pc \in Exited /\ Len(merged) > 0)
               => (writes[run] = 1 <=> Differs(existing, merged))
          /\ writes[run] <= 1
          /\ Len(merged) = 0 => writes[run] = 0
          /\ run >= 2 => writes[run] = 0)
    /\ [][(run >= 2 /\ run' = run) => output_file' = output_file]_vars

C5_Witness ==
    /\ run = 2
    /\ pc = "done"
    /\ writes[1] = 1
    /\ writes[2] = 0
    /\ existing.state = "json"

\* C6: when every configured source yields an empty item list the run ends
\* with an error, merge and persist are skipped and the output file is not
\* written, created or modified.
C6_NoItemsNoOutput ==
    (pc \in Exited /\ all_list_json = <<>>)
        => /\ pc \in {"exit_error", "crashed"}
           /\ Len(catalog) = 0
           /\ Len(merged) = 0
           /\ writes[run] = 0
           /\ output_file = Unread

C6_Witness ==
    /\ pc = "exit_error"
    /\ Len(url_details) = 1
    /\ fetched = <<LegacyUrl>>
    /\ upstream[LegacyUrl].status = "ok"
    /\ Logged(Error("Unable to find any design examples in URL"))

\* C7: with a controller file the persisted object is the shallow merge of
\* the override over the catalog: every key of the override has the
\* override's value, every other key of the catalog the catalog's value;
\* without a controller file the persisted object is the catalog, and the
\* run does not fail for it.
C7_ShallowMerge ==
    (pc = "done" /\ Len(merged) > 0) =>
        LET persisted == json_load(output_file.text)
        IN  IF controller.state = "json"
            THEN LET override == json_load(controller.text)
                 IN  /\ Keys(persisted) = Keys(catalog) \cup Keys(override)
                     /\ \A k \in Keys(override) :
                          Lookup(persisted, k) = Lookup(override, k)
                     /\ \A k \in Keys(catalog) \ Keys(override) :
                          Lookup(persisted, k) = Lookup(catalog, k)
            ELSE /\ controller.state = "absent"
                 /\ DictEq(persisted, catalog)

C7_Witness ==
    /\ pc = "done"
    /\ writes[run] = 1
    /\ OverrideKeys = {"num"}
    /\ Lookup(json_load(output_file.text), "num") = 999
    /\ Lookup(catalog, "num") = MaxItems

IsGithubItem(item) == "Q_GITHUB_RELEASE" \in DOMAIN item

\* the release an item was published in, as the releases API listed it
ReleaseOf(item) ==
    LET d == url_details[SourceIndex(item.id.src)]
    IN  upstream[ReleasesUrl(d.repo_owner, d.repo_name)].json[item.id.rel]

Named(assets, name) ==
    {i \in 1..Len(assets) : "name" \in DOMAIN assets[i] /\ assets[i].name = name}

Resolved(item) ==
    LET release == ReleaseOf(item)
        named == Named(release.assets, item.downloadUrl)
    IN  /\ item.Q_GITHUB_RELEASE = release.tag_name
        /\ IF named # {}
           THEN \E i \in named : item.Q_DOWNLOAD_URL = release.assets[i].url
           ELSE /\ item.Q_DOWNLOAD_URL = <<>>
                /\ Logged(MissingAsset(item, release))

\* the items of the releases of the current source that were read are in list_json
Kept ==
    pc = "releases" =>
        \A r \in 1..(rel - 1) :
            \A a \in ListJsonAsset(releases[r]) :
                LET answer == upstream[releases[r].assets[a].url]
                IN  (answer.status = "ok" /\ Has(answer.json, "designs")
                        /\ ~Has(answer.json, "data"))
                    => \A p \in 1..Len(Get(answer.json, "designs").list) :
                         \E i \in 1..Len(list_json) :
                            list_json[i].id
                              = [src |-> url_details[idx].url, rel |-> r, pos |-> p]

\* C8: after enrichment Q_DOWNLOAD_URL of an item of a GitHub release is the
\* fetch reference of the asset of that same release named item.downloadUrl,
\* wherever the asset stands relative to list.json; without such an asset it
\* is the empty string, a warning is logged and the item is kept.
C8_AssetResolution ==
    /\ \A i \in 1..Len(list_json) : Resolved(list_json[i])
    /\ \A i \in 1..Len(all_list_json) :
          IsGithubItem(all_list_json[i]) => Resolved(all_list_json[i])
    /\ Kept

C8_Witness ==
    /\ \E i \in 1..Len(all_list_json) :
          /\ IsGithubItem(all_list_json[i])
          /\ all_list_json[i].id.rel = 2
          /\ all_list_json[i].Q_DOWNLOAD_URL = <<>>
    /\ \E i \in 1..Len(all_list_json) :
          /\ IsGithubItem(all_list_json[i])
          /\ all_list_json[i].id.rel = 2
          /\ all_list_json[i].downloadUrl = DOC_ZIP
          /\ all_list_json[i].Q_DOWNLOAD_URL = AssetUrl(GithubUrl, 2, 3)

\* urlparse(url).hostname
UrlHost(url) == AfterFirst(Head(Split(Tail(url), "/")), <<"@">>)

\* the "owner/name" an URL of a GitHub file points at
UrlRepo(url) == RepoId(extract_url_detail(url))

\* C9: use_raw_image_url replaces the src of an img tag by its raw-content
\* form exactly when the host of the URL is GitHub and the URL contains
\* repoId; a tag whose URL has another host or points at another repository
\* is passed through verbatim, and so is all other text.
C9_RewritesOnlySameRepoGithub ==
    pc = "return_images" =>
        /\ Len(fn_out) = Len(fn_in.text)
        /\ \A i \in 1..Len(fn_in.text) :
              LET chunk == fn_in.text[i]
              IN  IF chunk.kind = "img"
                  THEN /\ fn_out[i].kind = "img"
                       /\ fn_out[i].body =
                            IF /\ UrlHost(chunk.body) = <<"github.com">>
                               /\ Contains(chunk.body, fn_in.repo)
                            THEN convert_to_raw_github_url(chunk.body)
                            ELSE chunk.body
                       /\ (\/ UrlHost(chunk.body) # <<"github.com">>
                           \/ UrlRepo(chunk.body) # fn_in.repo)
                             => fn_out[i].body = chunk.body
                  ELSE fn_out[i] = chunk

\* the URLs of urls, each at its first occurrence
RECURSIVE FirstOccurrences(_, _)
FirstOccurrences(urls, i) ==
    IF i > Len(urls) THEN <<>>
    ELSE (IF \A j \in 1..(i - 1) : urls[j] # urls[i] THEN <<urls[i]>> ELSE <<>>)
         \o FirstOccurrences(urls, i + 1)

NoTwice(seq) == \A i, j \in 1..Len(seq) : i # j => seq[i] # seq[j]

\* C10: get_unique_urls keeps, for every URL of its input, exactly one
\* descriptor, the descriptors in the order of first occurrence, and is
\* idempotent; resolving a list with duplicates and deduplicating gives what
\* resolving the deduplicated list gives, and no source is fetched twice in
\* one run.
C10_UniqueUrls ==
    /\ (pc = "sources" /\ idx = 1) =>
          LET urls == get_predefined_url(config).urls
              details == extract_url_details(urls)
          IN  /\ url_details = get_unique_urls(details)
              /\ {url_details[i].url : i \in 1..Len(url_details)}
                    = {urls[i] : i \in 1..Len(urls)}
              /\ url_details = extract_url_details(FirstOccurrences(urls, 1))
              /\ get_unique_urls(url_details) = url_details
    /\ NoTwice([i \in 1..Len(url_details) |-> url_details[i].url])
    /\ NoTwice(fetched)
    /\ \A k \in 1..Len(fetched) :
          \E i \in 1..Len(url_details) : fetched[k] = url_details[i].url

C10_Witness ==
    /\ pc = "done"
    /\ config.state = "json"
    /\ Len(config.entries) = MaxUrls
    /\ config.entries[MaxUrls] = [url |-> LegacyUrl]
    /\ Len(url_details) = MaxUrls
    /\ Len(fetched) = MaxUrls

====
